---- MODULE Spec2Model ----
(***************************************************************************)
(* The three GLB export scripts of based.guide_realtime                    *)
(*   export_env.py, export_rt_scene.py, scripts/export_char.py             *)
(* as one state machine.  A run is one execution of one script: the       *)
(* authoring file on disk, the data the host holds in memory (bpy.data),   *)
(* the script's local variables, and how the process ended.                *)
(*                                                                         *)
(* Names are sequences of one-character strings so that the substring,     *)
(* prefix, split and upper-case tests of the scripts are computed.         *)
(***************************************************************************)
EXTENDS Naturals, Sequences, FiniteSets

VARIABLES
    script,             \* which script runs: "env", "rt" or "char"
    fileExists,         \* the authoring file is on disk
    file,               \* contents of the authoring file: [collections, objects]
    pc,                 \* position of the run
    collections,        \* bpy.data.collections: Seq of collection records
    objects,            \* every object loaded, by load position
    removed,            \* positions taken out of bpy.data.objects, in order
    openCalled,         \* open_mainfile has been invoked
    loaded,             \* open_mainfile has returned normally
    hidden_collections, \* export_env: hidden_collections (names)
    hidden_count,       \* export_rt_scene: hidden_count
    linked_objects,     \* export_rt_scene: linked_objects
    all_objects,        \* all_objects: positions, the list holds references
    found,              \* meshes, lights, cameras, skinned_meshes, armatures
    hidden_for_export,  \* export_rt_scene: names hidden in step 4
    export_objects,     \* export_objects (positions), <<>> before it is built
    export_meshes,      \* export_env: export_meshes
    dirCreated,         \* os.makedirs(output_dir) has been called
    exportCalls,        \* number of invocations of export_scene.gltf
    exportOk,           \* an invocation of export_scene.gltf returned normally
    exc,                \* the exception that ended the run: [kind, at]
    handler,            \* the handler that ended the run
    printed,            \* tags of the messages printed
    summary,            \* the counts of the final summary
    exitStatus          \* exit status of the process, read once pc = "exited"

vars == <<script, fileExists, file, pc, collections, objects, removed, openCalled,
          loaded, hidden_collections, hidden_count, linked_objects, all_objects, found,
          hidden_for_export, export_objects, export_meshes, dirCreated,
          exportCalls, exportOk, exc, handler, printed, summary, exitStatus>>

-----------------------------------------------------------------------------
(* Bounds of the model *)

MaxColls == 2       \* collections in an authoring file
MaxObjs == 2        \* objects in an authoring file

-----------------------------------------------------------------------------
(* Strings *)

LowerCase == <<"a","b","c","d","e","f","g","h","i","j","k","l","m",
               "n","o","p","q","r","s","t","u","v","w","x","y","z">>
UpperCase == <<"A","B","C","D","E","F","G","H","I","J","K","L","M",
               "N","O","P","Q","R","S","T","U","V","W","X","Y","Z">>

\* str.upper() on one character
UpperChar(c) ==
    IF \E i \in 1..Len(LowerCase) : LowerCase[i] = c
    THEN UpperCase[CHOOSE i \in 1..Len(LowerCase) : LowerCase[i] = c]
    ELSE c

\* str.upper()
Upper(s) == [i \in 1..Len(s) |-> UpperChar(s[i])]

\* p in s
Contains(s, p) ==
    \E i \in 0..Len(s) :
        /\ i + Len(p) <= Len(s)
        /\ SubSeq(s, i + 1, i + Len(p)) = p

\* s.startswith(p)
StartsWith(s, p) ==
    /\ Len(p) <= Len(s)
    /\ SubSeq(s, 1, Len(p)) = p

\* s.split('.')[0]
SplitDot0(s) ==
    IF \E i \in 1..Len(s) : s[i] = "."
    THEN LET first == CHOOSE i \in 1..Len(s) :
                          /\ s[i] = "."
                          /\ \A j \in 1..(i - 1) : s[j] # "."
         IN  SubSeq(s, 1, first - 1)
    ELSE s

S_WORKING == <<"W","O","R","K","I","N","G">>
S_Working == <<"W","o","r","k","i","n","g">>

\* names of collections
N_EXPORT == <<"E","X","P","O","R","T">>
N_WORKING_old == <<"W","O","R","K","I","N","G","_","o","l","d">>
N_Working == S_Working
N_Working001 == <<"W","o","r","k","i","n","g",".","0","0","1">>

\* names of objects
N_Body == <<"B","o","d","y">>
N_Cam == <<"C","a","m">>
N_Camera == <<"C","a","m","e","r","a">>
N_Camera001 == <<"C","a","m","e","r","a",".","0","0","1">>
N_Cube == <<"C","u","b","e">>
N_Rig == <<"R","i","g">>
N_Desk == <<"D","e","s","k">>
N_Desk001 == <<"D","e","s","k",".","0","0","1">>
N_Lamp == <<"L","a","m","p">>

-----------------------------------------------------------------------------
(* The host's data: collections and objects *)

Coll(n, hv, hr) == [name |-> n, hide_viewport |-> hv, hide_render |-> hr]

\* library: TRUE for an object linked from a library (obj.library is not None)
\* armature_modifier: obj.modifiers holds a modifier of type ARMATURE
Obj(n, lib, ty, arm, hv, hr, sc, uc) ==
    [name |-> n, library |-> lib, type |-> ty, armature_modifier |-> arm,
     hide_viewport |-> hv, hide_render |-> hr, in_scene |-> sc,
     users_collection |-> uc]

CollNamePool == <<N_EXPORT, N_WORKING_old, N_Working, N_Working001>>

EnvObjPool ==
    << Obj(N_Body, FALSE, "MESH", FALSE, FALSE, FALSE, TRUE, {N_EXPORT, N_Working}),
       Obj(N_Camera, FALSE, "CAMERA", FALSE, FALSE, TRUE, TRUE, {}),
       Obj(N_Cube, FALSE, "MESH", FALSE, TRUE, FALSE, TRUE, {}),
       Obj(N_Desk, FALSE, "MESH", FALSE, FALSE, FALSE, TRUE, {N_EXPORT}),
       Obj(N_Desk001, FALSE, "MESH", FALSE, FALSE, FALSE, TRUE, {N_Working}),
       Obj(N_Lamp, FALSE, "LIGHT", FALSE, FALSE, FALSE, TRUE, {N_WORKING_old}) >>

RtObjPool ==
    << Obj(N_Body, FALSE, "MESH", TRUE, FALSE, FALSE, TRUE, {}),
       Obj(N_Body, TRUE, "MESH", TRUE, FALSE, FALSE, TRUE, {}),
       Obj(N_Cam, FALSE, "CAMERA", FALSE, FALSE, FALSE, FALSE, {}),
       Obj(N_Camera, FALSE, "CAMERA", FALSE, FALSE, FALSE, TRUE, {}),
       Obj(N_Camera, TRUE, "CAMERA", FALSE, FALSE, FALSE, TRUE, {}),
       Obj(N_Camera001, TRUE, "CAMERA", FALSE, FALSE, FALSE, FALSE, {}),
       Obj(N_Cube, FALSE, "MESH", FALSE, TRUE, FALSE, FALSE, {}),
       Obj(N_Rig, FALSE, "ARMATURE", FALSE, TRUE, TRUE, TRUE, {}),
       Obj(N_Rig, TRUE, "ARMATURE", FALSE, FALSE, FALSE, TRUE, {}) >>

CharObjPool ==
    << Obj(N_Body, FALSE, "MESH", TRUE, FALSE, FALSE, TRUE, {}),
       Obj(N_Cube, FALSE, "MESH", FALSE, FALSE, FALSE, TRUE, {}),
       Obj(N_Desk, FALSE, "MESH", TRUE, TRUE, TRUE, TRUE, {}),
       Obj(N_Rig, FALSE, "ARMATURE", FALSE, FALSE, FALSE, TRUE, {}) >>

ObjPool(s) ==
    CASE s = "env" -> EnvObjPool
      [] s = "rt" -> RtObjPool
      [] s = "char" -> CharObjPool

\* the members of S in increasing order
Ascending(S) ==
    CHOOSE f \in [1..Cardinality(S) -> S] :
        \A i, j \in 1..Cardinality(S) : i < j => f[i] < f[j]

\* the sub-sequences of pool of length at most n
Picks(pool, n) ==
    { [i \in 1..Cardinality(S) |-> pool[Ascending(S)[i]]] :
        S \in {T \in SUBSET (1..Len(pool)) : Cardinality(T) <= n} }

\* <<hide_viewport, hide_render>> of a collection in a file
CollFlagPool == {<<FALSE, FALSE>>, <<TRUE, FALSE>>, <<TRUE, TRUE>>}

CollectionLists ==
    UNION { { [i \in 1..Len(ns) |-> Coll(ns[i], f[i][1], f[i][2])] :
                f \in [1..Len(ns) -> CollFlagPool] } :
            ns \in Picks(CollNamePool, MaxColls) }

NamesOf(cs) == {cs[i].name : i \in 1..Len(cs)}

\* the contents an authoring file of script s can have
Files(s) ==
    UNION { { [collections |-> cs, objects |-> os] :
                os \in { o \in Picks(ObjPool(s), MaxObjs) :
                            \A i \in 1..Len(o) :
                                o[i].users_collection \subseteq NamesOf(cs) } } :
            cs \in CollectionLists }

EmptyFile == [collections |-> <<>>, objects |-> <<>>]

-----------------------------------------------------------------------------
(* List comprehensions over positions *)

Positions(n) == [i \in 1..n |-> i]

Range(f) == {f[i] : i \in DOMAIN f}

\* [o.name for o in l]
NamesAt(objs, l) == [i \in 1..Len(l) |-> objs[l[i]].name]

\* list(bpy.data.objects): the positions not removed
DataObjects(objs, rem) ==
    SelectSeq(Positions(Len(objs)), LAMBDA i : i \notin Range(rem))

OfType(objs, l, ty) == SelectSeq(l, LAMBDA i : objs[i].type = ty)

\* obj.type == 'MESH' and obj.modifiers and any(m.type == 'ARMATURE' ...)
IsSkinned(o) == o.type = "MESH" /\ o.armature_modifier

NoneFound == [meshes |-> <<>>, lights |-> <<>>, cameras |-> <<>>,
              skinned_meshes |-> <<>>, armatures |-> <<>>]

NoSummary == [objects |-> 0, meshes |-> 0, lights |-> 0, cameras |-> 0,
              skinned_meshes |-> 0, armatures |-> 0]

-----------------------------------------------------------------------------
(* Exceptions and the handlers that end a run *)

Kinds == {"Exception", "KeyboardInterrupt"}

NoExc == [kind |-> "none", at |-> "none"]

\* the handler an exception of kind k raised at step at reaches in script s
HandlerOf(s, at, k) ==
    CASE s = "env" ->
            IF k = "Exception" /\ at \in {"load", "export"} THEN at ELSE "uncaught"
      [] s \in {"rt", "char"} ->
            IF k = "Exception" /\ at = "export" THEN "export"
            ELSE IF k = "KeyboardInterrupt" THEN "interrupt"
            ELSE "unexpected"

MessageOf(h) ==
    CASE h = "load" -> "error_loading"
      [] h = "export" -> "export_failed"
      [] h = "interrupt" -> "cancelled"
      [] h = "unexpected" -> "unexpected_error"
      [] h = "uncaught" -> "traceback"

\* an exception of kind k leaves step at: its handler prints and calls
\* sys.exit(1); with no handler the interpreter prints the traceback and the
\* process ends with status 1
Raise(at, k) ==
    /\ pc' = "exited"
    /\ exc' = [kind |-> k, at |-> at]
    /\ handler' = HandlerOf(script, at, k)
    /\ printed' = printed \cup {MessageOf(HandlerOf(script, at, k))}
    /\ exitStatus' = 1

\* sys.exit(1) outside every except clause: SystemExit is no Exception
SysExit(msg) ==
    /\ pc' = "exited"
    /\ printed' = printed \cup {msg}
    /\ exitStatus' = 1
    /\ UNCHANGED <<exc, handler>>

-----------------------------------------------------------------------------
(* Hiding the "Working" collections *)

\* the test of export_env.py without .upper()
MatchEnvCaseSensitive(c) == Contains(c.name, S_Working)

MatchEnv(c) == Contains(Upper(c.name), S_WORKING)

MatchRt(c) == Contains(c.name, S_Working)

\* the collection hidden in the viewport only
HideCollectionViewportOnly(c) == [c EXCEPT !.hide_viewport = TRUE]

HideCollection(c) == [c EXCEPT !.hide_viewport = TRUE, !.hide_render = TRUE]

\* the test of the hide loop of script s
Matches(s, c) ==
    CASE s = "env" -> MatchEnv(c)
      [] s = "rt" -> MatchRt(c)

\* the loop over bpy.data.collections in script s
HideLoop(cs, s) ==
    [i \in 1..Len(cs) |-> IF Matches(s, cs[i]) THEN HideCollection(cs[i]) ELSE cs[i]]

\* the names appended to hidden_collections, one per iteration that matched
HiddenNames(cs, s) ==
    LET hit == SelectSeq(cs, LAMBDA c : Matches(s, c))
    IN  [i \in 1..Len(hit) |-> hit[i].name]

-----------------------------------------------------------------------------
(* export_env.py *)

Init ==
    /\ script \in {"env", "rt", "char"}
    /\ fileExists \in BOOLEAN
    /\ file \in (IF fileExists THEN Files(script) ELSE {EmptyFile})
    /\ pc = "start"
    /\ collections = <<>>
    /\ objects = <<>>
    /\ removed = <<>>
    /\ openCalled = FALSE
    /\ loaded = FALSE
    /\ hidden_collections = <<>>
    /\ hidden_count = 0
    /\ linked_objects = <<>>
    /\ all_objects = <<>>
    /\ found = NoneFound
    /\ hidden_for_export = <<>>
    /\ export_objects = <<>>
    /\ export_meshes = <<>>
    /\ dirCreated = FALSE
    /\ exportCalls = 0
    /\ exportOk = FALSE
    /\ exc = NoExc
    /\ handler = "none"
    /\ printed = {}
    /\ summary = NoSummary
    /\ exitStatus = 0

\* bpy.ops.wm.open_mainfile returns normally
OpenMainfile(next) ==
    /\ fileExists
    /\ openCalled' = TRUE
    /\ loaded' = TRUE
    /\ collections' = file.collections
    /\ objects' = file.objects
    /\ removed' = <<>>
    /\ pc' = next

\* bpy.ops.export_scene.gltf is invoked and returns normally
ExportGltf(next) ==
    /\ exportCalls' = exportCalls + 1
    /\ exportOk' = TRUE
    /\ printed' = printed \cup {"export_successful"}
    /\ pc' = next

\* the load handler prints and the run goes on
EnvLoadContinuesOnError ==
    /\ script = "env" /\ pc = "start"
    /\ \/ /\ OpenMainfile("inspect")
          /\ UNCHANGED <<script, fileExists, file, hidden_collections, hidden_count,
                    linked_objects, all_objects, found, hidden_for_export,
                    export_objects, export_meshes, dirCreated, exportCalls,
                    exportOk, exc, handler, printed, summary, exitStatus>>
       \/ /\ openCalled' = TRUE
          /\ printed' = printed \cup {"error_loading"}
          /\ pc' = "inspect"
          /\ UNCHANGED <<script, fileExists, file, collections, objects, removed,
                    loaded, hidden_collections, hidden_count, linked_objects,
                    all_objects, found, hidden_for_export, export_objects,
                    export_meshes, dirCreated, exportCalls, exportOk, exc,
                    handler, summary, exitStatus>>

EnvLoad ==
    /\ script = "env" /\ pc = "start"
    /\ \/ /\ OpenMainfile("inspect")
          /\ UNCHANGED <<script, fileExists, file, hidden_collections, hidden_count,
                    linked_objects, all_objects, found, hidden_for_export,
                    export_objects, export_meshes, dirCreated, exportCalls,
                    exportOk, exc, handler, printed, summary, exitStatus>>
       \/ /\ \E k \in Kinds : Raise("load", k)
          /\ openCalled' = TRUE
          /\ UNCHANGED <<script, fileExists, file, collections, objects, removed,
                    loaded, hidden_collections, hidden_count, linked_objects,
                    all_objects, found, hidden_for_export, export_objects,
                    export_meshes, dirCreated, exportCalls, exportOk, summary>>

EnvInspect ==
    /\ script = "env" /\ pc = "inspect"
    /\ \/ /\ all_objects' = DataObjects(objects, removed)
          /\ found' = [NoneFound EXCEPT
                 !.meshes = OfType(objects, all_objects', "MESH"),
                 !.lights = OfType(objects, all_objects', "LIGHT"),
                 !.cameras = OfType(objects, all_objects', "CAMERA")]
          /\ pc' = "hide"
          /\ UNCHANGED <<script, fileExists, file, collections, objects, removed,
                    openCalled, loaded, hidden_collections, hidden_count,
                    linked_objects, hidden_for_export, export_objects,
                    export_meshes, dirCreated, exportCalls, exportOk, exc,
                    handler, printed, summary, exitStatus>>
       \/ /\ \E k \in Kinds : Raise("inspect", k)
          /\ UNCHANGED <<script, fileExists, file, collections, objects, removed,
                    openCalled, loaded, hidden_collections, hidden_count,
                    linked_objects, all_objects, found, hidden_for_export,
                    export_objects, export_meshes, dirCreated, exportCalls,
                    exportOk, summary>>

\* not obj.hide_viewport and not obj.hide_render
EnvCounted(o) == ~o.hide_viewport /\ ~o.hide_render

EnvHide ==
    /\ script = "env" /\ pc = "hide"
    /\ \/ /\ collections' = HideLoop(collections, "env")
          /\ hidden_collections' = HiddenNames(collections, "env")
          /\ export_objects' = SelectSeq(all_objects, LAMBDA i : EnvCounted(objects[i]))
          /\ export_meshes' = OfType(objects, export_objects', "MESH")
          /\ pc' = "export"
          /\ UNCHANGED <<script, fileExists, file, objects, removed, openCalled,
                    loaded, hidden_count, linked_objects, all_objects, found,
                    hidden_for_export, dirCreated, exportCalls, exportOk, exc,
                    handler, printed, summary, exitStatus>>
       \/ /\ \E k \in Kinds : Raise("hide", k)
          /\ UNCHANGED <<script, fileExists, file, collections, objects, removed,
                    openCalled, loaded, hidden_collections, hidden_count,
                    linked_objects, all_objects, found, hidden_for_export,
                    export_objects, export_meshes, dirCreated, exportCalls,
                    exportOk, summary>>

EnvExport ==
    /\ script = "env" /\ pc = "export"
    /\ \/ /\ ExportGltf("report")
          /\ UNCHANGED <<script, fileExists, file, collections, objects, removed,
                    openCalled, loaded, hidden_collections, hidden_count,
                    linked_objects, all_objects, found, hidden_for_export,
                    export_objects, export_meshes, dirCreated, exc, handler,
                    summary, exitStatus>>
       \/ /\ \E k \in Kinds : Raise("export", k)
          /\ exportCalls' = exportCalls + 1
          /\ UNCHANGED <<script, fileExists, file, collections, objects, removed,
                    openCalled, loaded, hidden_collections, hidden_count,
                    linked_objects, all_objects, found, hidden_for_export,
                    export_objects, export_meshes, dirCreated, exportOk,
                    summary>>

EnvReport ==
    /\ script = "env" /\ pc = "report"
    /\ \/ /\ summary' = [NoSummary EXCEPT
                 !.meshes = Len(export_meshes),
                 !.lights = Len(found.lights)]
          /\ printed' = printed \cup {"complete"}
          /\ exitStatus' = 0
          /\ pc' = "exited"
          /\ UNCHANGED <<script, fileExists, file, collections, objects, removed,
                    openCalled, loaded, hidden_collections, hidden_count,
                    linked_objects, all_objects, found, hidden_for_export,
                    export_objects, export_meshes, dirCreated, exportCalls,
                    exportOk, exc, handler>>
       \/ /\ \E k \in Kinds : Raise("getsize", k)
          /\ UNCHANGED <<script, fileExists, file, collections, objects, removed,
                    openCalled, loaded, hidden_collections, hidden_count,
                    linked_objects, all_objects, found, hidden_for_export,
                    export_objects, export_meshes, dirCreated, exportCalls,
                    exportOk, summary>>

-----------------------------------------------------------------------------
(* export_rt_scene.py *)

\* bpy.ops.wm.read_homefile(use_empty=True)
RtReadHomefile ==
    /\ script = "rt" /\ pc = "start"
    /\ \/ /\ collections' = <<>>
          /\ objects' = <<>>
          /\ removed' = <<>>
          /\ pc' = "exists"
          /\ UNCHANGED <<script, fileExists, file, openCalled, loaded,
                    hidden_collections, hidden_count, linked_objects,
                    all_objects, found, hidden_for_export, export_objects,
                    export_meshes, dirCreated, exportCalls, exportOk, exc,
                    handler, printed, summary, exitStatus>>
       \/ /\ \E k \in Kinds : Raise("read_homefile", k)
          /\ UNCHANGED <<script, fileExists, file, collections, objects, removed,
                    openCalled, loaded, hidden_collections, hidden_count,
                    linked_objects, all_objects, found, hidden_for_export,
                    export_objects, export_meshes, dirCreated, exportCalls,
                    exportOk, summary>>

\* the existence test prints and the run goes on
RtCheckFileNoExit ==
    /\ script = "rt" /\ pc = "exists"
    /\ pc' = "load"
    /\ printed' = IF fileExists THEN printed ELSE printed \cup {"file_not_found"}
    /\ UNCHANGED <<script, fileExists, file, collections, objects, removed,
              openCalled, loaded, hidden_collections, hidden_count,
              linked_objects, all_objects, found, hidden_for_export,
              export_objects, export_meshes, dirCreated, exportCalls, exportOk,
              exc, handler, summary, exitStatus>>

\* if not os.path.exists(RT_SCENE_FILE): ... sys.exit(1)
RtCheckFile ==
    /\ script = "rt" /\ pc = "exists"
    /\ \/ /\ fileExists
          /\ pc' = "load"
          /\ UNCHANGED <<script, fileExists, file, collections, objects, removed,
                    openCalled, loaded, hidden_collections, hidden_count,
                    linked_objects, all_objects, found, hidden_for_export,
                    export_objects, export_meshes, dirCreated, exportCalls,
                    exportOk, exc, handler, printed, summary, exitStatus>>
       \/ /\ ~fileExists
          /\ SysExit("file_not_found")
          /\ UNCHANGED <<script, fileExists, file, collections, objects, removed,
                    openCalled, loaded, hidden_collections, hidden_count,
                    linked_objects, all_objects, found, hidden_for_export,
                    export_objects, export_meshes, dirCreated, exportCalls,
                    exportOk, summary>>

RtLoad ==
    /\ script = "rt" /\ pc = "load"
    /\ \/ /\ OpenMainfile("hide")
          /\ UNCHANGED <<script, fileExists, file, hidden_collections, hidden_count,
                    linked_objects, all_objects, found, hidden_for_export,
                    export_objects, export_meshes, dirCreated, exportCalls,
                    exportOk, exc, handler, printed, summary, exitStatus>>
       \/ /\ \E k \in Kinds : Raise("load", k)
          /\ openCalled' = TRUE
          /\ UNCHANGED <<script, fileExists, file, collections, objects, removed,
                    loaded, hidden_collections, hidden_count, linked_objects,
                    all_objects, found, hidden_for_export, export_objects,
                    export_meshes, dirCreated, exportCalls, exportOk, summary>>

RtHide ==
    /\ script = "rt" /\ pc = "hide"
    /\ \/ /\ collections' = HideLoop(collections, "rt")
          /\ hidden_count' = Len(HiddenNames(collections, "rt"))
          /\ pc' = "linked"
          /\ UNCHANGED <<script, fileExists, file, objects, removed, openCalled,
                    loaded, hidden_collections, linked_objects, all_objects,
                    found, hidden_for_export, export_objects, export_meshes,
                    dirCreated, exportCalls, exportOk, exc, handler, printed,
                    summary, exitStatus>>
       \/ /\ \E k \in Kinds : Raise("hide", k)
          /\ UNCHANGED <<script, fileExists, file, collections, objects, removed,
                    openCalled, loaded, hidden_collections, hidden_count,
                    linked_objects, all_objects, found, hidden_for_export,
                    export_objects, export_meshes, dirCreated, exportCalls,
                    exportOk, summary>>

RtLinked ==
    /\ script = "rt" /\ pc = "linked"
    /\ \/ /\ linked_objects' = SelectSeq(DataObjects(objects, removed),
                                         LAMBDA i : objects[i].library)
          /\ pc' = "orphans"
          /\ UNCHANGED <<script, fileExists, file, collections, objects, removed,
                    openCalled, loaded, hidden_collections, hidden_count,
                    all_objects, found, hidden_for_export, export_objects,
                    export_meshes, dirCreated, exportCalls, exportOk, exc,
                    handler, printed, summary, exitStatus>>
       \/ /\ \E k \in Kinds : Raise("linked", k)
          /\ UNCHANGED <<script, fileExists, file, collections, objects, removed,
                    openCalled, loaded, hidden_collections, hidden_count,
                    linked_objects, all_objects, found, hidden_for_export,
                    export_objects, export_meshes, dirCreated, exportCalls,
                    exportOk, summary>>

\* {obj.name for obj in bpy.context.scene.objects}
SceneObjectNames(objs, rem) ==
    {objs[i].name : i \in {j \in Range(DataObjects(objs, rem)) : objs[j].in_scene}}

\* obj.name.split('.')[0]
BaseName(n) == SplitDot0(n)

\* any(o.name.startswith(base_name) and o.name in scene_object_names
\*     for o in bpy.data.objects)
HasSceneNamesake(objs, rem, names, base) ==
    \E j \in Range(DataObjects(objs, rem)) :
        /\ StartsWith(objs[j].name, base)
        /\ objs[j].name \in names

\* the test of one iteration of the removal loop, on the data as it is then
IsOrphanedDuplicate(objs, rem, names, i) ==
    /\ objs[i].name \notin names
    /\ HasSceneNamesake(objs, rem, names, BaseName(objs[i].name))

\* for obj in list(bpy.data.objects): ... bpy.data.objects.remove(obj)
RECURSIVE RemoveLoop(_, _, _, _)
RemoveLoop(objs, todo, rem, names) ==
    IF todo = <<>> THEN rem
    ELSE RemoveLoop(objs, Tail(todo),
                    IF IsOrphanedDuplicate(objs, rem, names, Head(todo))
                    THEN Append(rem, Head(todo)) ELSE rem,
                    names)

RtRemoveOrphans ==
    /\ script = "rt" /\ pc = "orphans"
    /\ \/ /\ removed' = RemoveLoop(objects, DataObjects(objects, removed), removed,
                                   SceneObjectNames(objects, removed))
          /\ pc' = "verify"
          /\ UNCHANGED <<script, fileExists, file, collections, objects, openCalled,
                    loaded, hidden_collections, hidden_count, linked_objects,
                    all_objects, found, hidden_for_export, export_objects,
                    export_meshes, dirCreated, exportCalls, exportOk, exc,
                    handler, printed, summary, exitStatus>>
       \/ /\ \E k \in Kinds : Raise("orphans", k)
          /\ UNCHANGED <<script, fileExists, file, collections, objects, removed,
                    openCalled, loaded, hidden_collections, hidden_count,
                    linked_objects, all_objects, found, hidden_for_export,
                    export_objects, export_meshes, dirCreated, exportCalls,
                    exportOk, summary>>

RtVerify ==
    /\ script = "rt" /\ pc = "verify"
    /\ \/ /\ all_objects' = DataObjects(objects, removed)
          /\ found' = [NoneFound EXCEPT
                 !.skinned_meshes =
                     SelectSeq(all_objects', LAMBDA i :
                         IsSkinned(objects[i]) /\ ~objects[i].hide_viewport),
                 !.cameras =
                     SelectSeq(all_objects', LAMBDA i :
                         objects[i].type = "CAMERA" /\ ~objects[i].hide_viewport),
                 !.armatures =
                     SelectSeq(all_objects', LAMBDA i :
                         objects[i].type = "ARMATURE" /\ ~objects[i].hide_viewport),
                 !.meshes =
                     SelectSeq(all_objects', LAMBDA i :
                         objects[i].type = "MESH" /\ ~objects[i].hide_viewport)]
          /\ pc' = "prepare"
          /\ UNCHANGED <<script, fileExists, file, collections, objects, removed,
                    openCalled, loaded, hidden_collections, hidden_count,
                    linked_objects, hidden_for_export, export_objects,
                    export_meshes, dirCreated, exportCalls, exportOk, exc,
                    handler, printed, summary, exitStatus>>
       \/ /\ \E k \in Kinds : Raise("verify", k)
          /\ UNCHANGED <<script, fileExists, file, collections, objects, removed,
                    openCalled, loaded, hidden_collections, hidden_count,
                    linked_objects, all_objects, found, hidden_for_export,
                    export_objects, export_meshes, dirCreated, exportCalls,
                    exportOk, summary>>

\* the keys of override_objects
OverrideNames(objs, l) == {objs[i].name : i \in {j \in Range(l) : ~objs[j].library}}

\* the test of step 4 without the library test
IsNameDuplicate(objs, l, i) == objs[i].name \in OverrideNames(objs, l)

\* obj.library is not None and obj.name in override_objects
IsLinkedDuplicate(objs, l, i) ==
    /\ objs[i].library
    /\ objs[i].name \in OverrideNames(objs, l)

HideObject(o) == [o EXCEPT !.hide_viewport = TRUE, !.hide_render = TRUE]

\* step 4: the loop over all_objects
HideDuplicates(objs, l) ==
    [i \in 1..Len(objs) |->
        IF i \in Range(l) /\ IsLinkedDuplicate(objs, l, i)
        THEN HideObject(objs[i]) ELSE objs[i]]

RtPrepare ==
    /\ script = "rt" /\ pc = "prepare"
    /\ \/ /\ objects' = HideDuplicates(objects, all_objects)
          /\ hidden_for_export' =
                 NamesAt(objects, SelectSeq(all_objects, LAMBDA i :
                                      IsLinkedDuplicate(objects, all_objects, i)))
          /\ export_objects' = SelectSeq(all_objects, LAMBDA i : ~objects'[i].hide_viewport)
          /\ pc' = "makedirs"
          /\ UNCHANGED <<script, fileExists, file, collections, removed, openCalled,
                    loaded, hidden_collections, hidden_count, linked_objects,
                    all_objects, found, export_meshes, dirCreated, exportCalls,
                    exportOk, exc, handler, printed, summary, exitStatus>>
       \/ /\ \E k \in Kinds : Raise("prepare", k)
          /\ UNCHANGED <<script, fileExists, file, collections, objects, removed,
                    openCalled, loaded, hidden_collections, hidden_count,
                    linked_objects, all_objects, found, hidden_for_export,
                    export_objects, export_meshes, dirCreated, exportCalls,
                    exportOk, summary>>

\* if not os.path.exists(output_dir): os.makedirs(output_dir)
RtMakeDirs ==
    /\ script = "rt" /\ pc = "makedirs"
    /\ \/ /\ \E dirExists \in BOOLEAN : dirCreated' = ~dirExists
          /\ pc' = "export"
          /\ UNCHANGED <<script, fileExists, file, collections, objects, removed,
                    openCalled, loaded, hidden_collections, hidden_count,
                    linked_objects, all_objects, found, hidden_for_export,
                    export_objects, export_meshes, exportCalls, exportOk, exc,
                    handler, printed, summary, exitStatus>>
       \/ /\ \E k \in Kinds : Raise("makedirs", k)
          /\ UNCHANGED <<script, fileExists, file, collections, objects, removed,
                    openCalled, loaded, hidden_collections, hidden_count,
                    linked_objects, all_objects, found, hidden_for_export,
                    export_objects, export_meshes, dirCreated, exportCalls,
                    exportOk, summary>>

RtExport ==
    /\ script = "rt" /\ pc = "export"
    /\ \/ /\ ExportGltf("report")
          /\ UNCHANGED <<script, fileExists, file, collections, objects, removed,
                    openCalled, loaded, hidden_collections, hidden_count,
                    linked_objects, all_objects, found, hidden_for_export,
                    export_objects, export_meshes, dirCreated, exc, handler,
                    summary, exitStatus>>
       \/ /\ \E k \in Kinds : Raise("export", k)
          /\ exportCalls' = exportCalls + 1
          /\ UNCHANGED <<script, fileExists, file, collections, objects, removed,
                    openCalled, loaded, hidden_collections, hidden_count,
                    linked_objects, all_objects, found, hidden_for_export,
                    export_objects, export_meshes, dirCreated, exportOk,
                    summary>>

RtReport ==
    /\ script = "rt" /\ pc = "report"
    /\ \/ /\ summary' = [NoSummary EXCEPT
                 !.objects = Len(export_objects),
                 !.skinned_meshes =
                     Len(SelectSeq(export_objects, LAMBDA i : IsSkinned(objects[i]))),
                 !.armatures = Len(OfType(objects, export_objects, "ARMATURE")),
                 !.cameras = Len(found.cameras)]
          /\ printed' = printed \cup {"complete"}
          /\ exitStatus' = 0
          /\ pc' = "exited"
          /\ UNCHANGED <<script, fileExists, file, collections, objects, removed,
                    openCalled, loaded, hidden_collections, hidden_count,
                    linked_objects, all_objects, found, hidden_for_export,
                    export_objects, export_meshes, dirCreated, exportCalls,
                    exportOk, exc, handler>>
       \/ /\ \E k \in Kinds : Raise("getsize", k)
          /\ UNCHANGED <<script, fileExists, file, collections, objects, removed,
                    openCalled, loaded, hidden_collections, hidden_count,
                    linked_objects, all_objects, found, hidden_for_export,
                    export_objects, export_meshes, dirCreated, exportCalls,
                    exportOk, summary>>

-----------------------------------------------------------------------------
(* scripts/export_char.py *)

CharLoad ==
    /\ script = "char" /\ pc = "start"
    /\ \/ /\ OpenMainfile("verify")
          /\ UNCHANGED <<script, fileExists, file, hidden_collections, hidden_count,
                    linked_objects, all_objects, found, hidden_for_export,
                    export_objects, export_meshes, dirCreated, exportCalls,
                    exportOk, exc, handler, printed, summary, exitStatus>>
       \/ /\ \E k \in Kinds : Raise("load", k)
          /\ openCalled' = TRUE
          /\ UNCHANGED <<script, fileExists, file, collections, objects, removed,
                    loaded, hidden_collections, hidden_count, linked_objects,
                    all_objects, found, hidden_for_export, export_objects,
                    export_meshes, dirCreated, exportCalls, exportOk, summary>>

\* every mesh taken for a skinned mesh
CharAnyMesh(objs, rem) == OfType(objs, DataObjects(objs, rem), "MESH")

CharSkinned(objs, rem) == SelectSeq(DataObjects(objs, rem), LAMBDA i : IsSkinned(objs[i]))

CharVerify ==
    /\ script = "char" /\ pc = "verify"
    /\ \/ /\ found' = [NoneFound EXCEPT
                 !.skinned_meshes = CharSkinned(objects, removed),
                 !.armatures = OfType(objects, DataObjects(objects, removed), "ARMATURE")]
          /\ IF Len(found'.skinned_meshes) = 0
             THEN /\ SysExit("no_skinned_meshes")
                  /\ UNCHANGED <<script, fileExists, file, collections, objects, removed,
                    openCalled, loaded, hidden_collections, hidden_count,
                    linked_objects, all_objects, hidden_for_export,
                    export_objects, export_meshes, dirCreated, exportCalls,
                    exportOk, summary>>
             ELSE /\ pc' = "export"
                  /\ UNCHANGED <<script, fileExists, file, collections, objects, removed,
                    openCalled, loaded, hidden_collections, hidden_count,
                    linked_objects, all_objects, hidden_for_export,
                    export_objects, export_meshes, dirCreated, exportCalls,
                    exportOk, exc, handler, printed, summary, exitStatus>>
       \/ /\ \E k \in Kinds : Raise("verify", k)
          /\ UNCHANGED <<script, fileExists, file, collections, objects, removed,
                    openCalled, loaded, hidden_collections, hidden_count,
                    linked_objects, all_objects, found, hidden_for_export,
                    export_objects, export_meshes, dirCreated, exportCalls,
                    exportOk, summary>>

CharExport ==
    /\ script = "char" /\ pc = "export"
    /\ \/ /\ ExportGltf("report")
          /\ UNCHANGED <<script, fileExists, file, collections, objects, removed,
                    openCalled, loaded, hidden_collections, hidden_count,
                    linked_objects, all_objects, found, hidden_for_export,
                    export_objects, export_meshes, dirCreated, exc, handler,
                    summary, exitStatus>>
       \/ /\ \E k \in Kinds : Raise("export", k)
          /\ exportCalls' = exportCalls + 1
          /\ UNCHANGED <<script, fileExists, file, collections, objects, removed,
                    openCalled, loaded, hidden_collections, hidden_count,
                    linked_objects, all_objects, found, hidden_for_export,
                    export_objects, export_meshes, dirCreated, exportOk,
                    summary>>

CharReport ==
    /\ script = "char" /\ pc = "report"
    /\ \/ /\ summary' = [NoSummary EXCEPT
                 !.skinned_meshes = Len(found.skinned_meshes),
                 !.armatures = Len(found.armatures)]
          /\ printed' = printed \cup {"complete"}
          /\ exitStatus' = 0
          /\ pc' = "exited"
          /\ UNCHANGED <<script, fileExists, file, collections, objects, removed,
                    openCalled, loaded, hidden_collections, hidden_count,
                    linked_objects, all_objects, found, hidden_for_export,
                    export_objects, export_meshes, dirCreated, exportCalls,
                    exportOk, exc, handler>>
       \/ /\ \E k \in Kinds : Raise("getsize", k)
          /\ UNCHANGED <<script, fileExists, file, collections, objects, removed,
                    openCalled, loaded, hidden_collections, hidden_count,
                    linked_objects, all_objects, found, hidden_for_export,
                    export_objects, export_meshes, dirCreated, exportCalls,
                    exportOk, summary>>

-----------------------------------------------------------------------------

Next ==
    \/ EnvLoad
    \/ EnvInspect
    \/ EnvHide
    \/ EnvExport
    \/ EnvReport
    \/ RtReadHomefile
    \/ RtCheckFile
    \/ RtLoad
    \/ RtHide
    \/ RtLinked
    \/ RtRemoveOrphans
    \/ RtVerify
    \/ RtPrepare
    \/ RtMakeDirs
    \/ RtExport
    \/ RtReport
    \/ CharLoad
    \/ CharVerify
    \/ CharExport
    \/ CharReport

Spec == Init /\ [][Next]_vars

-----------------------------------------------------------------------------
(* Properties *)

Exited == pc = "exited"

\* the hide loop over the collections has run to its end
HideDone ==
    /\ loaded
    /\ pc \notin {"inspect", "hide"}
    /\ exc.at \notin {"inspect", "hide"}

\* step 4 of export_rt_scene has run to its end
PrepareDone ==
    /\ script = "rt"
    /\ loaded
    /\ pc \in {"makedirs", "export", "report", "exited"}
    /\ exc.at \notin {"hide", "linked", "orphans", "verify", "prepare"}

NameHasWorking(n) == Contains(n, S_Working)

NameHasWorkingAnyCase(n) == Contains(Upper(n), S_WORKING)

\* C1: an exception raised at any step of any of the three scripts reaches a
\* handler of the script that prints an error message and exits with status 1;
\* none escapes every handler.
C1_EveryExceptionHandled ==
    (Exited /\ exc.kind = "Exception") =>
        /\ handler \in {"load", "export", "unexpected"}
        /\ MessageOf(handler) \in printed
        /\ exitStatus = 1

\* C2: the export is invoked at most once and only after the file was opened;
\* a run that ends with status 0 printed the completion summary after exactly
\* one export, which succeeded; a run whose load or export failed never prints
\* the completion summary.
C2_SingleExportAfterLoad ==
    /\ exportCalls <= 1
    /\ exportCalls >= 1 => loaded
    /\ exportOk => exportCalls = 1
    /\ (Exited /\ exitStatus = 0) =>
           /\ "complete" \in printed
           /\ exportCalls = 1
           /\ exportOk
    /\ (~loaded \/ ~exportOk \/ exc.at \in {"load", "export"}) =>
           "complete" \notin printed
    /\ "complete" \in printed => (Exited /\ exitStatus = 0)

C2_Witness ==
    /\ Exited
    /\ exitStatus = 0
    /\ "complete" \in printed
    /\ exportCalls = 1

WorkingHiddenAtExport ==
    exportCalls >= 1 =>
        \A i \in 1..Len(collections) :
            NameHasWorking(collections[i].name) =>
                (collections[i].hide_viewport /\ collections[i].hide_render)

C4_HideKeyedOnName ==
    (loaded /\ script \in {"env", "rt"}) =>
        LET NameMatches(n) == IF script = "env" THEN NameHasWorkingAnyCase(n)
                          ELSE NameHasWorking(n)
            matching == {i \in 1..Len(file.collections) :
                             NameMatches(file.collections[i].name)}
        IN  /\ Len(collections) = Len(file.collections)
            /\ \A i \in 1..Len(collections) :
                   /\ collections[i].name = file.collections[i].name
                   /\ i \notin matching => collections[i] = file.collections[i]
                   /\ file.collections[i].hide_viewport => collections[i].hide_viewport
                   /\ file.collections[i].hide_render => collections[i].hide_render
                   /\ (HideDone /\ i \in matching) =>
                          (collections[i].hide_viewport /\ collections[i].hide_render)
                   /\ (~HideDone) => collections[i] = file.collections[i]
            /\ HideDone =>
                   IF script = "env"
                   THEN /\ Len(hidden_collections) = Cardinality(matching)
                        /\ Range(hidden_collections) =
                               {file.collections[i].name : i \in matching}
                   ELSE hidden_count = Cardinality(matching)

C4_Witness ==
    /\ script = "env"
    /\ HideDone
    /\ \E i, j \in 1..Len(file.collections) :
           /\ NameHasWorkingAnyCase(file.collections[i].name)
           /\ ~NameHasWorking(file.collections[i].name)
           /\ ~file.collections[i].hide_viewport
           /\ collections[i].hide_viewport
           /\ ~NameHasWorkingAnyCase(file.collections[j].name)
           /\ file.collections[j].hide_render

\* the object is in collections only, all of them hidden "Working" collections
OnlyInHiddenWorking(o) ==
    /\ o.users_collection # {}
    /\ \A n \in o.users_collection :
           /\ NameHasWorkingAnyCase(n)
           /\ \E i \in 1..Len(collections) :
                  /\ collections[i].name = n
                  /\ collections[i].hide_viewport

\* C5: in export_env.py, once the Working collections are hidden, no object
\* that belongs only to hidden Working collections is in export_objects or
\* export_meshes, so "Will export N objects (M meshes)" counts what the
\* export of the visible objects includes.
C5_CountExcludesHiddenWorking ==
    (script = "env" /\ HideDone) =>
        \A i \in Range(export_objects) \cup Range(export_meshes) :
            ~OnlyInHiddenWorking(objects[i])

\* C6: export_rt_scene.py removes an object only if its name is the name of no
\* object in the scene and some object in the scene has the same base name;
\* no object in the scene is removed.
C6_OnlyOrphanedDuplicatesRemoved ==
    script = "rt" =>
        \A i \in Range(removed) :
            /\ ~objects[i].in_scene
            /\ \A j \in 1..Len(objects) :
                   objects[j].in_scene => objects[j].name # objects[i].name
            /\ \E j \in 1..Len(objects) :
                   /\ objects[j].in_scene
                   /\ SplitDot0(objects[j].name) = SplitDot0(objects[i].name)

\* C7: every count of the final summary of export_rt_scene.py counts objects
\* still visible (hide_viewport False) after step 4; the camera count holds
\* no camera hidden as a linked duplicate.
C7_SummaryCountsVisible ==
    (script = "rt" /\ "complete" \in printed) =>
        LET visible == {i \in Range(all_objects) : ~objects[i].hide_viewport}
        IN  /\ summary.objects = Cardinality(visible)
            /\ summary.skinned_meshes =
                   Cardinality({i \in visible : objects[i].type = "MESH"
                                                /\ objects[i].armature_modifier})
            /\ summary.armatures =
                   Cardinality({i \in visible : objects[i].type = "ARMATURE"})
            /\ summary.cameras =
                   Cardinality({i \in visible : objects[i].type = "CAMERA"})

\* C8: step 4 of export_rt_scene.py sets hide_viewport and hide_render of an
\* object iff it is library-linked and a local object of the same name exists;
\* every other object keeps its flags, and the reported number of hidden
\* duplicates is the number of such linked objects.
C8_OnlyLinkedDuplicatesHidden ==
    (script = "rt" /\ loaded) =>
        LET present == {i \in 1..Len(objects) : i \notin Range(removed)}
            dups == {i \in present :
                        /\ file.objects[i].library
                        /\ \E j \in present :
                               /\ ~file.objects[j].library
                               /\ file.objects[j].name = file.objects[i].name}
        IN  /\ Len(objects) = Len(file.objects)
            /\ \A i \in 1..Len(objects) :
                   IF PrepareDone /\ i \in dups
                   THEN objects[i] = [file.objects[i] EXCEPT !.hide_viewport = TRUE,
                                                             !.hide_render = TRUE]
                   ELSE objects[i] = file.objects[i]
            /\ PrepareDone => Len(hidden_for_export) = Cardinality(dups)
            /\ ~PrepareDone => hidden_for_export = <<>>

C8_Witness ==
    /\ PrepareDone
    /\ Len(hidden_for_export) = 1
    /\ \E i, j \in 1..Len(objects) :
           /\ objects[i].library /\ ~objects[j].library
           /\ objects[i].name = objects[j].name
           /\ ~file.objects[i].hide_viewport
           /\ objects[i].hide_viewport
           /\ ~objects[j].hide_viewport

FileHasSkinnedMesh ==
    \E i \in 1..Len(file.objects) :
        file.objects[i].type = "MESH" /\ file.objects[i].armature_modifier

\* C9: scripts/export_char.py on a file with no skinned mesh ends with status
\* 1, never invokes the export and is not reported as an unexpected error;
\* on a file with a skinned mesh the export is invoked.
C9_NoSkinnedMeshNoExport ==
    (script = "char" /\ loaded) =>
        /\ ~FileHasSkinnedMesh =>
               /\ exportCalls = 0
               /\ pc \in {"verify", "exited"}
               /\ Exited => exitStatus = 1
               /\ (Exited /\ exc.kind = "none") =>
                      /\ "unexpected_error" \notin printed
                      /\ "no_skinned_meshes" \in printed
                      /\ handler = "none"
        /\ (FileHasSkinnedMesh /\ Exited /\ exc.at # "verify") => exportCalls = 1
        /\ (FileHasSkinnedMesh /\ exc.kind = "none") =>
               "no_skinned_meshes" \notin printed

C9_Witness ==
    /\ script = "char"
    /\ loaded
    /\ Len(file.objects) > 0
    /\ ~FileHasSkinnedMesh
    /\ Exited
    /\ "no_skinned_meshes" \in printed

\* C10: when the RT_SCENE file does not exist, export_rt_scene.py exits with
\* status 1 before open_mainfile, before any visibility flag changes, before
\* any object is removed, before the output directory is created, and without
\* invoking the export.
C10_MissingFileExitsEarly ==
    (script = "rt" /\ ~fileExists) =>
        /\ pc \in {"start", "exists", "exited"}
        /\ Exited => exitStatus = 1
        /\ ~openCalled
        /\ ~loaded
        /\ collections = <<>>
        /\ objects = <<>>
        /\ removed = <<>>
        /\ hidden_count = 0
        /\ hidden_for_export = <<>>
        /\ ~dirCreated
        /\ exportCalls = 0

C10_Witness ==
    /\ script = "rt"
    /\ ~fileExists
    /\ Exited
    /\ "file_not_found" \in printed
    /\ exc.kind = "none"

====
